---- MODULE Spec2Model ----
(***************************************************************************)
(* Span lifecycle and event dispatch of tracing-ts (src/src/index.ts).     *)
(*                                                                         *)
(* The program is single threaded: a call of span(), enter(), exit(),      *)
(* setGlobalSubscriber() or of an event emitter runs to completion and is  *)
(* one action.  run(fn) is two: the part up to the call of fn, and the     *)
(* finally block that runs when fn has returned or thrown; what fn does is *)
(* the actions in between.  runAsync(fn) is the part up to its `await`,    *)
(* and the finally block, which runs as a job of its own once fn's promise *)
(* has settled and no function is running.  Object references (SpanContext, Subscriber)    *)
(* are the allocation index of the object, `undefined` and `null` are the  *)
(* index 0.  The values of Date.now() (startTime, timestamp) are stored    *)
(* and never read again by index.ts; they are left out.  A Fields map is   *)
(* a function from its keys to their values.                               *)
(*                                                                         *)
(* lastOp, lastCalls, enteredFrom, nest* and story are history variables:   *)
(* they record what happened and are read by no operation.                 *)
(***************************************************************************)
EXTENDS Integers, Sequences, FiniteSets, Bags, TLC

\* ---------------------------------------------------------------- Level
TRACE == 0
DEBUG == 1
INFO == 2
WARN == 3
ERROR == 4

Levels == {TRACE, DEBUG, INFO, WARN, ERROR}

\* ------------------------------------------------------- absent values
\* `currentSpan: SpanContext | undefined`, `parent?`, `span?`
NoSpan == 0
\* `globalSubscriber: Subscriber | null = null`
NoSubscriber == 0
\* `metadata.level` left out of a Partial<Metadata>
NoLevel == -1
\* `target?: string` left out
NoTarget == "undefined"
\* `{}`, the default of a `fields: Fields = {}` parameter
EmptyFields == [k \in {} |-> 0]
\* An optional object (`options?`, `fields?`) is the sequence of the values
\* given, none or one; an object is the function from its keys to their
\* values.
Undefined == << >>
Given(v) == << v >>

\* -------------------------------------------------------------- bounds
MaxSpans == 2
MaxDepth == 2
\* entries in the arrays of all the collectors that are followed, together
MaxCollected == 4
\* entries in the `events` array of one followed collector
MaxEvents == 2
\* runAsync() calls that have not finished
MaxTasks == 2

\* ---------------------------------------------------------- input sets
\* The two subscriber objects that can be installed, by their minLevel:
\* 1 is `new ConsoleSubscriber()` (minLevel INFO), 2 is
\* `new CollectorSubscriber()` (minLevel TRACE).
Subscribers == {1, 2}
\* `new CollectorSubscriber(minLevel)`, kept by the program in a variable so
\* that it can read its arrays and call clear(): the model follows the
\* arrays of these, and not those of 1 and 2, which only the subscriber
\* slot refers to.
Collector(minLevel) == 3 + minLevel
Collectors == { Collector(L) : L \in Levels }
\* An implementation of the Subscriber interface whose onSpanEnter throws.
FaultyOnEnter == 8
\* An implementation of the Subscriber interface whose onSpanExit throws.
FaultyOnExit == 9
\* What a throwing subscriber method throws.
SubscriberError == "S"
\* span(name, {}, {level, target}): the arguments at the program's call of
\* span(), either with the metadata left out or with a level and a target.
SpanInputs == { << "outer", NoLevel, NoTarget >>, << "inner", DEBUG, "db" >> }
\* The readings of Date.now() when the spans are constructed.
Times == {1000, 2000}
\* debug("b") and info("c", {target: "db"})
EventInputs == { << DEBUG, "b", NoTarget >>, << INFO, "c", "db" >> }
\* The options of the emitters: left out, a plain Fields map (empty or not),
\* and LogOptions with a target, with fields, with both, and with a key
\* that LogOptions does not have.
OptionInputs ==
    { Undefined, Given(EmptyFields), Given([user |-> 7]),
      Given([target |-> "x"]), Given([fields |-> [user |-> 7]]),
      Given([target |-> "x", fields |-> [user |-> 7]]),
      Given([target |-> "x", user |-> 7]) }
\* trace("a"), debug("b"), warn("w"), error("e") and info("c", options)
EmitInputs ==
    { << TRACE, "a", Undefined >>, << DEBUG, "b", Undefined >>,
      << WARN, "w", Undefined >>, << ERROR, "e", Undefined >> }
      \cup { << INFO, "c", o >> : o \in OptionInputs }
\* The arguments a function wrapped by instrument("f", fn) is called with.
ArgInputs == { << 41 >>, << 41, 1 >> }
Errors == {"X", "Y"}
NoError == "none"

VARIABLES
    site,               \* the arguments the program passes to span()
    globalSubscriber,   \* index.ts:68
    spanIdCounter,      \* index.ts:69
    currentSpan,        \* index.ts:70
    spans,              \* every Span object constructed so far, in order
    runStack,           \* the run() calls that have not returned yet
    thrown,             \* the error propagating up the call stack, if any
    workErr,            \* the error the work function threw, while it is in flight
    lastOp,             \* the operation that made the last step
    lastCalls,          \* the subscriber methods the last operation called
    enteredFrom,        \* per handle: currentSpan just before its last effective enter
    nestStack,          \* handles entered and not exited, in enter order
    nestBase,           \* currentSpan before the first enter of nestStack
    nestOk,             \* every exit so far in this nesting was of the innermost handle
    tasks,              \* the bag of the runAsync() calls suspended at their await
    collectors,         \* per followed collector: its `events` and `spans` arrays
    story               \* the operations since a collector was installed empty or
                        \* cleared, while they follow a documented scenario

vars == << site, globalSubscriber, spanIdCounter, currentSpan, spans, runStack,
           thrown, workErr, lastOp, lastCalls, enteredFrom,
           nestStack, nestBase, nestOk, tasks, collectors, story >>

Handles == 1 .. Len(spans)

\* ------------------------------------------------------------ subscribers
\* `private minLevel` of the two subscriber classes' default instances
MinLevelOf(s) == IF s = 1 THEN INFO ELSE IF s = 2 THEN TRACE ELSE s - 3

\* enabled() that lets through only what is above the minimum level.
enabledAbove(s, metadata) == metadata.level > MinLevelOf(s)

\* enabled(metadata): metadata.level >= this.minLevel
enabled(s, metadata) == metadata.level >= MinLevelOf(s)

\* The subscriber's method m throws.
Throws(s, m) ==
    \/ s = FaultyOnEnter /\ m = "onSpanEnter"
    \/ s = FaultyOnExit /\ m = "onSpanExit"

\* One call of a Subscriber method, as the subscriber can observe it: the
\* argument, and the program state it would read at that moment.
Call(m, s, sp, md, msg, fld, cur, ent) ==
    [m |-> m, sub |-> s, span |-> sp, level |-> md.level, target |-> md.target,
     message |-> msg, fields |-> fld, cur |-> cur, ent |-> ent]

\* ---------------------------------------------------- CollectorSubscriber
\* `public events: Event[] = []; public spans: {...}[] = []`
NoneCollected == [events |-> << >>, spans |-> << >>]

\* onSpanEnter(span): this.spans.push({ span, action: "enter" })
CollectorOnSpanEnter(c, span) ==
    [c EXCEPT !.spans = Append(@, [span |-> span, action |-> "enter"])]

\* onSpanExit(span): this.spans.push({ span, action: "exit" })
CollectorOnSpanExit(c, span) ==
    [c EXCEPT !.spans = Append(@, [span |-> span, action |-> "exit"])]

\* onEvent(event): this.events.push(event)
CollectorOnEvent(c, event) == [c EXCEPT !.events = Append(@, event)]

\* The Event object an onEvent call was made with.
EventOf(call) ==
    [metadata |-> [level |-> call.level, target |-> call.target],
     message |-> call.message, fields |-> call.fields, span |-> call.span]

\* The collector after one call of one of its methods; enabled() only reads.
Receive(c, call) ==
    CASE call.m = "onSpanEnter" -> CollectorOnSpanEnter(c, call.span)
      [] call.m = "onSpanExit" -> CollectorOnSpanExit(c, call.span)
      [] call.m = "onEvent" -> CollectorOnEvent(c, EventOf(call))
      [] OTHER -> c

\* The followed collectors after the calls of one operation, in call order.
RECURSIVE Deliver(_, _)
Deliver(cs, calls) ==
    IF calls = << >> THEN cs
    ELSE LET call == Head(calls) IN
         Deliver(IF call.sub \in DOMAIN cs
                 THEN [cs EXCEPT ![call.sub] = Receive(@, call)]
                 ELSE cs,
                 Tail(calls))

RECURSIVE Sum(_, _)
Sum(f, S) == IF S = {} THEN 0
             ELSE LET x == CHOOSE y \in S : TRUE IN f[x] + Sum(f, S \ {x})

\* The number of entries the followed collectors hold.
Collected(cs) ==
    Sum([s \in DOMAIN cs |-> Len(cs[s].events) + Len(cs[s].spans)], DOMAIN cs)

\* ------------------------------------------------------- program state
\* The part of the state the functions of index.ts read and write, threaded
\* through their statements in the order the code executes them.  `calls`
\* collects the subscriber methods called on the way, and the settling of
\* the promise an async method returned; `err` is the exception that ended
\* the function, if one did.
Here ==
    [sub |-> globalSubscriber, counter |-> spanIdCounter, cur |-> currentSpan,
     spans |-> spans, calls |-> << >>, err |-> NoError]

Commit(st) ==
    /\ UNCHANGED site
    /\ globalSubscriber' = st.sub
    /\ spanIdCounter' = st.counter
    /\ currentSpan' = st.cur
    /\ spans' = st.spans
    /\ lastCalls' = st.calls
    /\ collectors' = Deliver(collectors, st.calls)
    /\ collectors' # collectors =>
          /\ Collected(collectors') <= MaxCollected
          /\ \A s \in DOMAIN collectors : Len(collectors'[s].events) <= MaxEvents

\* The onSpanEnter call inside a try block that swallows what it throws.
onSpanEnterGuarded(st, h) ==
    IF st.sub = NoSubscriber THEN st
    ELSE LET md == st.spans[h].context.metadata IN
         [st EXCEPT !.calls = Append(@, Call("onSpanEnter", st.sub, h, md, "",
                                             st.spans[h].context.fields, st.cur,
                                             st.spans[h].entered))]

\* globalSubscriber?.onSpanEnter(this.context)
onSpanEnter(st, h) ==
    IF st.sub = NoSubscriber THEN st
    ELSE LET md == st.spans[h].context.metadata IN
         [st EXCEPT !.calls = Append(@, Call("onSpanEnter", st.sub, h, md, "",
                                             st.spans[h].context.fields, st.cur,
                                             st.spans[h].entered)),
                    !.err = IF Throws(st.sub, "onSpanEnter")
                            THEN SubscriberError ELSE @]

\* globalSubscriber?.onSpanExit(this.context)
onSpanExit(st, h) ==
    IF st.sub = NoSubscriber THEN st
    ELSE LET md == st.spans[h].context.metadata IN
         [st EXCEPT !.calls = Append(@, Call("onSpanExit", st.sub, h, md, "",
                                            st.spans[h].context.fields, st.cur,
                                             st.spans[h].entered)),
                    !.err = IF Throws(st.sub, "onSpanExit")
                            THEN SubscriberError ELSE @]

\* globalSubscriber.onEvent(event)
onEvent(st, event) ==
    [st EXCEPT !.calls = Append(@, Call("onEvent", st.sub, event.span, event.metadata,
                                        event.message, event.fields, st.cur, FALSE))]

\* ------------------------------------------------------------ class Span
\* enter() without its `if (this.entered) return this` guard.
enterAgain(st, h) ==
    LET s1 == [st EXCEPT !.spans[h].entered = TRUE]
        s2 == [s1 EXCEPT !.spans[h].previousSpan = s1.cur]
        s3 == [s2 EXCEPT !.cur = h]
    IN  onSpanEnter(s3, h)

\* enter() that saves currentSpan only while previousSpan is undefined:
\* `this.previousSpan ??= currentSpan`.
enterSavingOnce(st, h) ==
    IF st.spans[h].entered THEN st
    ELSE LET s1 == [st EXCEPT !.spans[h].entered = TRUE]
             s2 == [s1 EXCEPT !.spans[h].previousSpan =
                                 IF @ = NoSpan THEN s1.cur ELSE @]
             s3 == [s2 EXCEPT !.cur = h]
         IN  onSpanEnter(s3, h)

\* enter() that does not save currentSpan into previousSpan.
enterNoSave(st, h) ==
    IF st.spans[h].entered THEN st
    ELSE LET s1 == [st EXCEPT !.spans[h].entered = TRUE]
             s3 == [s1 EXCEPT !.cur = h]
         IN  onSpanEnter(s3, h)

\* enter() that does nothing when no subscriber is installed.
enterNeedsSubscriber(st, h) ==
    IF st.spans[h].entered \/ st.sub = NoSubscriber THEN st
    ELSE LET s1 == [st EXCEPT !.spans[h].entered = TRUE]
             s2 == [s1 EXCEPT !.spans[h].previousSpan = s1.cur]
             s3 == [s2 EXCEPT !.cur = h]
         IN  onSpanEnter(s3, h)

\* enter() that takes the parent at enter time.
enterReparent(st, h) ==
    IF st.spans[h].entered THEN st
    ELSE LET s1 == [st EXCEPT !.spans[h].entered = TRUE]
             s2 == [s1 EXCEPT !.spans[h].previousSpan = s1.cur,
                              !.spans[h].context.parent = s1.cur]
             s3 == [s2 EXCEPT !.cur = h]
         IN  onSpanEnter(s3, h)

\* Span.enter()
enter(st, h) ==
    IF st.spans[h].entered THEN st
    ELSE LET s1 == [st EXCEPT !.spans[h].entered = TRUE]
             s2 == [s1 EXCEPT !.spans[h].previousSpan = s1.cur]
             s3 == [s2 EXCEPT !.cur = h]
         IN  onSpanEnter(s3, h)

\* exit() that restores the span's parent instead of previousSpan.
exitToParent(st, h) ==
    IF ~ st.spans[h].entered THEN st
    ELSE LET s1 == onSpanExit(st, h)
             s2 == [s1 EXCEPT !.cur = s1.spans[h].context.parent]
         IN  [s2 EXCEPT !.spans[h].entered = FALSE]

\* exit() that restores currentSpan before it notifies the subscriber.
exitRestoreFirst(st, h) ==
    IF ~ st.spans[h].entered THEN st
    ELSE LET s1 == [st EXCEPT !.cur = st.spans[h].previousSpan]
             s2 == onSpanExit(s1, h)
         IN  [s2 EXCEPT !.spans[h].entered = FALSE]

\* exit() that leaves currentSpan as it is.
exitKeepsCurrent(st, h) ==
    IF ~ st.spans[h].entered THEN st
    ELSE LET s1 == onSpanExit(st, h)
         IN  [s1 EXCEPT !.spans[h].entered = FALSE]

\* exit() that leaves no current span behind when it exits the last
\* Entered handle.
exitClearing(st, h) ==
    IF ~ st.spans[h].entered THEN st
    ELSE LET s1 == onSpanExit(st, h)
             s2 == [s1 EXCEPT !.spans[h].entered = FALSE]
         IN  [s2 EXCEPT !.cur = IF \A g \in DOMAIN s2.spans : ~ s2.spans[g].entered
                                THEN NoSpan
                                ELSE s2.spans[h].previousSpan]

\* exit() that notifies in a try block and does its assignments in the
\* finally block: `try { notify } finally { currentSpan = ...; entered = false }`.
exitInFinally(st, h) ==
    IF ~ st.spans[h].entered THEN st
    ELSE LET s1 == onSpanExit(st, h)
             s2 == [s1 EXCEPT !.cur = s1.spans[h].previousSpan]
         IN  [s2 EXCEPT !.spans[h].entered = FALSE]

\* exit() that does not notify the subscriber.
exitSilent(st, h) ==
    IF ~ st.spans[h].entered THEN st
    ELSE LET s2 == [st EXCEPT !.cur = st.spans[h].previousSpan]
         IN  [s2 EXCEPT !.spans[h].entered = FALSE]

\* Span.exit()
exit(st, h) ==
    IF ~ st.spans[h].entered THEN st
    ELSE LET s1 == onSpanExit(st, h) IN
         IF s1.err # NoError THEN s1
         ELSE LET s2 == [s1 EXCEPT !.cur = s1.spans[h].previousSpan]
              IN  [s2 EXCEPT !.spans[h].entered = FALSE]

\* The promise an async method returned settles: it is resolved when
\* outcome is NoError, and rejected with outcome otherwise.  An exception
\* inside an async function ends as the rejection of its promise.
settle(st, h, outcome) ==
    [st EXCEPT !.calls = Append(@, Call(IF outcome = NoError THEN "resolve" ELSE "reject",
                                        NoSubscriber, h,
                                        [level |-> NoLevel, target |-> NoTarget],
                                        outcome, EmptyFields, st.cur,
                                        st.spans[h].entered)),
               !.err = NoError]

\* An await that leaves the span while the function is suspended.
awaitLeaves(st, h) ==
    IF ~ st.spans[h].entered THEN st
    ELSE LET s1 == onSpanExit(st, h)
             s2 == [s1 EXCEPT !.cur = s1.spans[h].previousSpan]
         IN  [s2 EXCEPT !.spans[h].entered = FALSE]

\* An await that gives the code that runs meanwhile the span that was
\* current before the call, as a per-task current span would.
awaitRestores(st, h) == [st EXCEPT !.cur = st.spans[h].previousSpan]

\* `await fn()` in runAsync(), up to the suspension: fn has been called and
\* has returned its promise; suspending changes nothing.
await(st, h) == st

\* Span.runAsync(fn), up to its suspension: `this.enter(); try { return
\* await fn()`.  enter() is called before the try block.
runAsyncCall(st, h) ==
    LET s1 == enter(st, h) IN
    IF s1.err # NoError THEN settle(s1, h, s1.err) ELSE await(s1, h)

\* Span.runAsync(fn), from the settling of fn's promise on: `finally {
\* this.exit() }`, then the promise of runAsync() settles as fn's did, or
\* is rejected with what exit() threw.
runAsyncFinally(st, h, outcome) ==
    LET s1 == exit(st, h)
    IN  settle(s1, h, IF s1.err # NoError THEN s1.err ELSE outcome)

\* spanIdCounter++ : the id is the counter's value before the increment is
\* kept, so the counter never moves.
NextIdStuck(counter) == counter

\* ++spanIdCounter
NextId(counter) == counter + 1

\* metadata.level ?? Level.INFO
LevelOrDefault(level) == IF level = NoLevel THEN INFO ELSE level

\* The constructor of a span() that also enters the span, as the comment
\* over span() says ("Create and enter a new span").
constructAndEnter(st, name, fields, level, target) ==
    LET id == NextId(st.counter)
        context == [id |-> id, name |-> name,
                    metadata |-> [level |-> LevelOrDefault(level), target |-> target],
                    fields |-> fields, parent |-> st.cur]
        s1 == [st EXCEPT
                 !.counter = id,
                 !.spans = Append(@, [context |-> context, previousSpan |-> NoSpan,
                                      entered |-> FALSE])]
    IN  enter(s1, Len(s1.spans))

\* new Span(name, fields, metadata)
construct(st, name, fields, level, target) ==
    LET id == NextId(st.counter)
        context == [id |-> id, name |-> name,
                    metadata |-> [level |-> LevelOrDefault(level), target |-> target],
                    fields |-> fields, parent |-> st.cur]
    IN  [st EXCEPT
           !.counter = id,
           !.spans = Append(@, [context |-> context, previousSpan |-> NoSpan,
                                entered |-> FALSE])]

\* new Span(name, fields, metadata) with the reading of the clock made
\* explicit: `startTime: Date.now()`, where Date.now() returns `now`.
constructAt(st, name, fields, level, target, now) ==
    LET s1 == construct(st, name, fields, level, target)
        n == Len(s1.spans)
    IN  [s1 EXCEPT !.spans[n].context = [startTime |-> now] @@ @]

\* ---------------------------------------------------------- recordEvent
\* recordEvent() that dispatches without asking enabled().
recordEventUnfiltered(st, level, message, fields, target) ==
    LET fullMetadata == [level |-> level, target |-> target] IN
    IF st.sub = NoSubscriber THEN st
    ELSE onEvent(st, [metadata |-> fullMetadata, message |-> message,
                               fields |-> fields,
                      span |-> st.cur])

\* recordEvent() that builds the event without its `span: currentSpan`.
recordEventNoSpan(st, level, message, fields, target) ==
    LET fullMetadata == [level |-> level, target |-> target] IN
    IF st.sub = NoSubscriber THEN st
    ELSE LET s1 == [st EXCEPT !.calls = Append(@, Call("enabled", st.sub, NoSpan,
                                                       fullMetadata, "", EmptyFields, st.cur,
                                                       FALSE))]
         IN  IF ~ enabled(st.sub, fullMetadata) THEN s1
             ELSE onEvent(s1, [metadata |-> fullMetadata, message |-> message,
                               fields |-> fields,
                               span |-> NoSpan])

recordEvent(st, level, message, fields, target) ==
    LET fullMetadata == [level |-> level, target |-> target] IN
    IF st.sub = NoSubscriber THEN st
    ELSE LET s1 == [st EXCEPT !.calls = Append(@, Call("enabled", st.sub, NoSpan,
                                                       fullMetadata, "", EmptyFields, st.cur,
                                                       FALSE))]
         IN  IF ~ enabled(st.sub, fullMetadata) THEN s1
             ELSE onEvent(s1, [metadata |-> fullMetadata, message |-> message,
                               fields |-> fields,
                               span |-> s1.cur])

\* setGlobalSubscriber() that tells the new subscriber of the span that is
\* current at the swap.
setGlobalSubscriberReplaying(st, s) ==
    LET s1 == [st EXCEPT !.sub = s]
    IN  IF s = NoSubscriber \/ s1.cur = NoSpan THEN s1 ELSE onSpanEnter(s1, s1.cur)

\* setGlobalSubscriber(subscriber)
setGlobalSubscriber(st, s) == [st EXCEPT !.sub = s]

\* ------------------------------------------------------ level emitters
\* logOpts.target when the key may be missing
TargetOf(o) == IF "target" \in DOMAIN o THEN o.target ELSE NoTarget
\* logOpts.fields when the key may be missing
FieldsOf(o) == IF "fields" \in DOMAIN o THEN Given(o.fields) ELSE Undefined

\* normalizeLogOptions() that takes the value for options only when it has
\* the key "target".
normalizeByTarget(options) ==
    IF options = Undefined THEN [target |-> NoTarget, fields |-> Undefined]
    ELSE LET o == options[1] IN
         IF "target" \in DOMAIN o
         THEN [target |-> TargetOf(o), fields |-> FieldsOf(o)]
         ELSE [target |-> NoTarget, fields |-> Given(o)]

\* normalizeLogOptions(options)
normalizeLogOptions(options) ==
    IF options = Undefined THEN [target |-> NoTarget, fields |-> Undefined]
    ELSE LET o == options[1] IN
         IF "target" \in DOMAIN o \/ "fields" \in DOMAIN o
         THEN [target |-> TargetOf(o), fields |-> FieldsOf(o)]
         ELSE [target |-> NoTarget, fields |-> Given(o)]

\* `fields: Fields = {}`: the default of recordEvent's parameter
FieldsOrDefault(fields) == IF fields = Undefined THEN EmptyFields ELSE fields[1]

\* trace / debug / info / warn / error (message, options)
emit(st, level, message, options) ==
    LET opts == normalizeLogOptions(options) IN
    recordEvent(st, level, message, FieldsOrDefault(opts.fields), opts.target)

\* The name of the emitter of a level.
EmitterOf(level) ==
    CASE level = TRACE -> "trace" [] level = DEBUG -> "debug"
      [] level = INFO -> "info" [] level = WARN -> "warn" [] OTHER -> "error"

\* ------------------------------------------------------------ instrument
\* `{ ...fields, args }`
Spread(fields, args) ==
    [k \in DOMAIN fields \cup {"args"} |-> IF k = "args" THEN args ELSE fields[k]]

\* instrument() whose wrapper keeps one span for all its calls: the span is
\* constructed at the first call and used again by the later ones.
instrumentedReusing(st, name, fields, args) ==
    IF \E h \in DOMAIN st.spans : st.spans[h].context.name = name
    THEN enter(st, CHOOSE h \in DOMAIN st.spans : st.spans[h].context.name = name)
    ELSE LET s1 == construct(st, name, Spread(fields, args), NoLevel, NoTarget)
         IN  enter(s1, Len(s1.spans))

\* The wrapper instrument(name, fn, fields) returns, called with args, up
\* to the call of fn: `const s = span(name, {...fields, args});` and the
\* `this.enter()` of s.run(), after which s is the current span.
instrumented(st, name, fields, args) ==
    LET s1 == construct(st, name, Spread(fields, args), NoLevel, NoTarget)
    IN  enter(s1, Len(s1.spans))

\* The span was constructed by a wrapper of instrument(), which keeps the
\* handle to itself.
Wrapped(h) == "args" \in DOMAIN spans[h].context.fields

\* ------------------------------------------------------------- scenarios
\* One operation as the story tells it: the function called, the handle it
\* is about, the name or message and the arguments passed.
Told(op, h, text, args) == [op |-> op, h |-> h, text |-> text, args |-> args]

\* span("outer").run(() => { span("inner").run(() => {}); }), where the
\* outer span is the o-th span constructed
OuterInner(o) ==
    << Told("construct", o, "outer", << >>), Told("run_call", o, "", << >>),
       Told("construct", o + 1, "inner", << >>), Told("run_call", o + 1, "", << >>),
       Told("run_return", o + 1, "", << >>), Told("run_return", o, "", << >>) >>

\* const f = instrument("f", (x) => x + 1); f(41); f(41), where the first
\* call runs fn in span a and the second in span b
TwiceInstrumented(a, b) ==
    << Told("instrumented", a, "f", << 41 >>), Told("run_return", a, "", << >>),
       Told("instrumented", b, "f", << 41 >>), Told("run_return", b, "", << >>) >>

\* trace("a"); debug("b"); info("c")
ThreeLevels ==
    << Told("trace", NoSpan, "a", << >>), Told("debug", NoSpan, "b", << >>),
       Told("info", NoSpan, "c", << >>) >>

Scenarios == { ThreeLevels } \cup { OuterInner(o) : o \in 1 .. MaxSpans }
                \cup { TwiceInstrumented(a, b) : a, b \in 1 .. MaxSpans }

IsPrefix(a, b) == Len(a) <= Len(b) /\ a = SubSeq(b, 1, Len(a))

NoStory == [on |-> FALSE, ops |-> << >>]
NewStory == [on |-> TRUE, ops |-> << >>]

\* The story after operation e: it goes on while the operations are the
\* beginning of a scenario.
Tell(e) ==
    story' = IF story.on /\ \E sc \in Scenarios : IsPrefix(Append(story.ops, e), sc)
             THEN [story EXCEPT !.ops = Append(@, e)]
             ELSE NoStory

\* --------------------------------------------------------------- Init
\* The record of one step: the operation, the handle it is about, whether it
\* found the handle in the state that makes it effective, and the level and
\* target it was called with.
\* For a completed run(): quiet tells that no onSpanExit call was made for
\* its handle between the call of run() and its finally block.
Op(op, h, eff, level, target, quiet) ==
    [op |-> op, h |-> h, eff |-> eff, level |-> level, target |-> target,
     quiet |-> quiet]

Init ==
    /\ site \in SpanInputs
    /\ globalSubscriber = NoSubscriber
    /\ spanIdCounter = 0
    /\ currentSpan = NoSpan
    /\ spans = << >>
    /\ runStack = << >>
    /\ thrown = NoError
    /\ workErr = NoError
    /\ lastOp = Op("init", NoSpan, FALSE, NoLevel, NoTarget, FALSE)
    /\ lastCalls = << >>
    /\ enteredFrom = << >>
    /\ nestStack = << >>
    /\ nestBase = NoSpan
    /\ nestOk = TRUE
    /\ tasks = EmptyBag
    /\ collectors = [s \in Collectors |-> NoneCollected]
    /\ story = NoStory

\* ------------------------------------------------------ history variables
\* nestStack, nestBase and nestOk follow one strictly nested sequence of
\* enter/exit calls: it starts with an effective enter() while no handle is
\* Entered, and it stops being one (nestOk = FALSE, the other two reset) at
\* the first effective exit() of a handle that is not the innermost.
NoneEntered == \A h \in DOMAIN spans : ~ spans[h].entered

\* What an effective enter() of h adds to the history.
HistEnter(h) ==
    /\ enteredFrom' = [enteredFrom EXCEPT ![h] = currentSpan]
    /\ IF NoneEntered
       THEN /\ nestStack' = << h >>
            /\ nestBase' = currentSpan
            /\ nestOk' = TRUE
       ELSE /\ nestStack' = IF nestOk THEN Append(nestStack, h) ELSE nestStack
            /\ UNCHANGED << nestBase, nestOk >>

\* What an effective exit() of h adds to the history.
HistExit(h) ==
    /\ IF nestOk /\ nestStack # << >> /\ nestStack[Len(nestStack)] = h
       THEN /\ nestStack' = SubSeq(nestStack, 1, Len(nestStack) - 1)
            /\ UNCHANGED << nestBase, nestOk >>
       ELSE /\ nestStack' = << >>
            /\ nestBase' = NoSpan
            /\ nestOk' = FALSE
    /\ UNCHANGED enteredFrom

HistNothing == UNCHANGED << enteredFrom, nestStack, nestBase, nestOk >>

\* The runAsync() calls in progress after an effective exit() of h that is
\* not the one of their own finally block: the span of those on h has not
\* stayed Entered.
TouchTasks(ts, h) ==
    LET on == { t \in BagToSet(ts) : t.h = h }
        others == { t \in BagToSet(ts) : t.h # h }
        touched == [h |-> h, intact |-> FALSE]
    IN  [t \in others \cup (IF on = {} THEN {} ELSE {touched}) |->
            IF t = touched
            THEN CopiesIn([touched EXCEPT !.intact = TRUE], ts) + CopiesIn(touched, ts)
            ELSE ts[t]]

NoteEnter(h) == HistEnter(h) /\ UNCHANGED tasks
NoteExit(h) == HistExit(h) /\ tasks' = TouchTasks(tasks, h)
NoteNothing == HistNothing /\ UNCHANGED tasks

\* The onSpanExit calls for handle h among `calls`.
ExitCalls(calls, h) ==
    Len(SelectSeq(calls, LAMBDA c : c.m = "onSpanExit" /\ c.span = h))

\* The run() frames after a step that made `calls`: a frame is no longer
\* quiet once onSpanExit was called for its handle.
TouchFrames(stack, calls) ==
    [i \in DOMAIN stack |->
        [stack[i] EXCEPT !.quiet = @ /\ ExitCalls(calls, stack[i].h) = 0]]

Running == thrown = NoError

\* --------------------------------------------------------------- actions
\* setGlobalSubscriber(s)
SetGlobalSubscriber(s) ==
    /\ Running
    /\ Commit(setGlobalSubscriber(Here, s))
    /\ lastOp' = Op("setGlobalSubscriber", NoSpan, TRUE,
                    NoLevel, NoTarget, FALSE)
    /\ story' = IF s \in Collectors /\ collectors[s] = NoneCollected
                THEN NewStory ELSE NoStory
    /\ NoteNothing
    /\ UNCHANGED << runStack, thrown, workErr >>

\* span(name, {}, {level, target}) / new Span(...), in a program that makes
\* at most `most` spans
ConstructWithin(most, name, level, target) ==
    /\ Running
    /\ Len(spans) < most
    /\ Commit(construct(Here, name, EmptyFields, level, target))
    /\ lastOp' = Op("construct", Len(spans) + 1, TRUE,
                    level, target, FALSE)
    /\ Tell(Told("construct", Len(spans) + 1, name, << >>))
    /\ enteredFrom' = Append(enteredFrom, NoSpan)
    /\ UNCHANGED << nestStack, nestBase, nestOk, tasks >>
    /\ UNCHANGED << runStack, thrown, workErr >>

\* span(name, {}, {level, target}) / new Span(...)
Construct(name, level, target) == ConstructWithin(MaxSpans, name, level, target)

\* span(name, {}, {level, target}) while the clock reads `now`
ConstructAt(name, level, target, now) ==
    /\ Running
    /\ Len(spans) < MaxSpans
    /\ Commit(constructAt(Here, name, EmptyFields, level, target, now))
    /\ lastOp' = Op("construct", Len(spans) + 1, TRUE,
                    level, target, FALSE)
    /\ Tell(Told("construct", Len(spans) + 1, name, << >>))
    /\ enteredFrom' = Append(enteredFrom, NoSpan)
    /\ UNCHANGED << nestStack, nestBase, nestOk, tasks >>
    /\ UNCHANGED << runStack, thrown, workErr >>

\* h.enter()
Enter(h) ==
    /\ Running
    /\ Commit(enter(Here, h))
    /\ lastOp' = Op("enter", h, ~ spans[h].entered,
                    NoLevel, NoTarget, FALSE)
    /\ Tell(Told("enter", h, "", << >>))
    /\ IF spans[h].entered THEN NoteNothing ELSE NoteEnter(h)
    /\ thrown' = enter(Here, h).err
    /\ UNCHANGED << runStack, workErr >>

\* h.exit()
Exit(h) ==
    /\ Running
    /\ Commit(exit(Here, h))
    /\ lastOp' = Op("exit", h, spans[h].entered /\ ~ spans'[h].entered,
                    NoLevel, NoTarget, FALSE)
    /\ Tell(Told("exit", h, "", << >>))
    /\ IF spans[h].entered /\ ~ spans'[h].entered THEN NoteExit(h) ELSE NoteNothing
    /\ runStack' = TouchFrames(runStack, lastCalls')
    /\ thrown' = exit(Here, h).err
    /\ UNCHANGED workErr

\* recordEvent(level, message, {}, {target})
Record(level, message, target) ==
    /\ Running
    /\ Commit(recordEvent(Here, level, message, EmptyFields, target))
    /\ lastOp' = Op("record", NoSpan, TRUE, level, target,
                    FALSE)
    /\ Tell(Told("record", NoSpan, message, << >>))
    /\ NoteNothing
    /\ UNCHANGED << runStack, thrown, workErr >>

\* trace / debug / info / warn / error (message, options)
Emit(level, message, options) ==
    /\ Running
    /\ Commit(emit(Here, level, message, options))
    /\ lastOp' = Op("emit", NoSpan, TRUE, level, normalizeLogOptions(options).target,
                    FALSE)
    /\ Tell(Told(EmitterOf(level), NoSpan, message, << >>))
    /\ NoteNothing
    /\ UNCHANGED << runStack, thrown, workErr >>

\* s.clear() of a followed collector
Clear(s) ==
    /\ Running
    /\ collectors' = [collectors EXCEPT ![s] = NoneCollected]
    /\ lastOp' = Op("clear", NoSpan, TRUE, NoLevel, NoTarget, FALSE)
    /\ story' = IF s = globalSubscriber THEN NewStory ELSE NoStory
    /\ lastCalls' = << >>
    /\ NoteNothing
    /\ UNCHANGED << site, globalSubscriber, spanIdCounter, currentSpan, spans,
                    runStack, thrown, workErr >>

\* h.run(fn), up to the call of fn: `this.enter(); try { return fn()`.
\* enter() is called before the try block: if it throws, run() is left at
\* once, with neither fn nor the finally block run.
RunCall(h) ==
    /\ Running
    /\ Len(runStack) < MaxDepth
    /\ Commit(enter(Here, h))
    /\ lastOp' = Op("run_call", h, ~ spans[h].entered,
                    NoLevel, NoTarget, FALSE)
    /\ Tell(Told("run_call", h, "", << >>))
    /\ IF spans[h].entered THEN NoteNothing ELSE NoteEnter(h)
    /\ thrown' = enter(Here, h).err
    /\ runStack' = IF thrown' = NoError
                   THEN Append(runStack, [h |-> h, quiet |-> TRUE])
                   ELSE runStack
    /\ UNCHANGED workErr

\* f(...args) of f = instrument(name, fn, fields), up to the call of fn
Instrumented(name, fields, args) ==
    /\ Running
    /\ Len(spans) < MaxSpans
    /\ Len(runStack) < MaxDepth
    /\ Commit(instrumented(Here, name, fields, args))
    /\ lastOp' = Op("instrumented", currentSpan', TRUE, NoLevel, NoTarget, FALSE)
    /\ Tell(Told("instrumented", currentSpan', name, args))
    /\ enteredFrom' = [h \in DOMAIN spans' |->
                          IF h = currentSpan' THEN currentSpan ELSE enteredFrom[h]]
    /\ IF NoneEntered
       THEN /\ nestStack' = << currentSpan' >>
            /\ nestBase' = currentSpan
            /\ nestOk' = TRUE
       ELSE /\ nestStack' = IF nestOk THEN Append(nestStack, currentSpan') ELSE nestStack
            /\ UNCHANGED << nestBase, nestOk >>
    /\ thrown' = instrumented(Here, name, fields, args).err
    /\ runStack' = IF thrown' = NoError
                   THEN Append(runStack, [h |-> currentSpan', quiet |-> TRUE])
                   ELSE runStack
    /\ UNCHANGED << tasks, workErr >>

\* One runAsync() call suspended at its await: its handle, and whether the
\* span has stayed Entered since the call (no other operation exited it).
\* The order of the suspended calls does not matter: any can settle next.
Task(h) == [h |-> h, intact |-> TRUE]

\* h.runAsync(fn), up to the suspension at `await fn()`
RunAsyncCall(h) ==
    /\ Running
    /\ BagCardinality(tasks) < MaxTasks
    /\ Commit(runAsyncCall(Here, h))
    /\ lastOp' = Op("run_async_call", h, ~ spans[h].entered,
                    NoLevel, NoTarget, FALSE)
    /\ Tell(Told("run_async_call", h, "", << >>))
    /\ IF spans[h].entered THEN HistNothing ELSE HistEnter(h)
    /\ tasks' = IF enter(Here, h).err = NoError
                THEN tasks (+) SetToBag({Task(h)})
                ELSE tasks
    /\ UNCHANGED << runStack, thrown, workErr >>

\* The promise fn returned to the suspended runAsync() t has settled with
\* outcome, and the runAsync() goes on, when no function is running: its
\* finally block, and the settling of its own promise.
Resume(t, outcome) ==
    /\ Running
    /\ runStack = << >>
    /\ Commit(runAsyncFinally(Here, t.h, outcome))
    /\ lastOp' = [outcome |-> outcome] @@
                  Op("run_async_end", t.h, spans[t.h].entered /\ ~ spans'[t.h].entered,
                     NoLevel, NoTarget, t.intact)
    /\ Tell(Told("run_async_end", t.h, outcome, << >>))
    /\ IF spans[t.h].entered /\ ~ spans'[t.h].entered
       THEN HistExit(t.h) /\ tasks' = TouchTasks(tasks (-) SetToBag({t}), t.h)
       ELSE HistNothing /\ tasks' = tasks (-) SetToBag({t})
    /\ UNCHANGED << runStack, thrown, workErr >>

\* The run() calls the error in flight has left when it leaves one more;
\* none when the run() returns.
Left(how) ==
    IF how # "run_throw" THEN 0
    ELSE IF lastOp.op = "run_throw" THEN lastOp.left + 1 ELSE 1

\* run() without try/finally: `this.enter(); const r = fn(); this.exit();
\* return r`.  An error thrown by fn leaves run() without the exit().
finallyOnReturnOnly(how) ==
    /\ runStack # << >>
    /\ LET top == runStack[Len(runStack)]
           rest == SubSeq(runStack, 1, Len(runStack) - 1)
           leave == how = "run_return"
           eff == leave /\ spans[top.h].entered
       IN  /\ Commit(IF leave THEN exit(Here, top.h) ELSE Here)
           /\ lastOp' = [left |-> Left(how)] @@
                         Op(how, top.h, eff, NoLevel, NoTarget, top.quiet)
           /\ Tell(Told(how, top.h, "", << >>))
           /\ IF eff THEN NoteExit(top.h) ELSE NoteNothing
           /\ runStack' = TouchFrames(rest, lastCalls')
    /\ UNCHANGED << thrown, workErr >>

\* The finally block of run(), `finally { this.exit() }`, after which run()
\* hands its caller what `how` says: fn's result, or the error in flight;
\* an exception thrown by exit() takes the place of either.
finally(how) ==
    /\ runStack # << >>
    /\ LET top == runStack[Len(runStack)]
           rest == SubSeq(runStack, 1, Len(runStack) - 1)
           eff == spans[top.h].entered /\ ~ spans'[top.h].entered
       IN  /\ Commit(exit(Here, top.h))
           /\ lastOp' = [left |-> Left(how)] @@
                         Op(how, top.h, eff, NoLevel, NoTarget, top.quiet)
           /\ Tell(Told(how, top.h, "", << >>))
           /\ IF eff THEN NoteExit(top.h) ELSE NoteNothing
           /\ runStack' = TouchFrames(rest, lastCalls')
           /\ thrown' = IF exit(Here, top.h).err # NoError
                        THEN exit(Here, top.h).err ELSE thrown
    /\ UNCHANGED workErr

\* fn returns: `return fn()`, then the finally block
RunReturn ==
    /\ Running
    /\ finally("run_return")

\* fn throws e
Throw(e) ==
    /\ Running
    /\ runStack # << >>
    /\ thrown' = e
    /\ workErr' = e
    /\ lastOp' = Op("throw", runStack[Len(runStack)].h, TRUE,
                    NoLevel, NoTarget, FALSE)
    /\ Tell(Told("throw", runStack[Len(runStack)].h, e, << >>))
    /\ lastCalls' = << >>
    /\ NoteNothing
    /\ UNCHANGED << site, globalSubscriber, spanIdCounter, currentSpan, spans,
                    runStack, collectors >>

\* The error leaves the innermost run(): the finally block runs, and the
\* error goes on to the caller of run().
RunThrow ==
    /\ ~ Running
    /\ finally("run_throw")

\* The caller the error has reached catches it.
Catch ==
    /\ ~ Running
    /\ thrown' = NoError
    /\ workErr' = NoError
    /\ lastOp' = Op("catch", NoSpan, TRUE, NoLevel, NoTarget,
                    FALSE)
    /\ Tell(Told("catch", NoSpan, "", << >>))
    /\ lastCalls' = << >>
    /\ NoteNothing
    /\ UNCHANGED << site, globalSubscriber, spanIdCounter, currentSpan, spans,
                    runStack, collectors >>

Next ==
    \/ \E s \in Subscribers : SetGlobalSubscriber(s)
    \/ Construct(site[1], site[2], site[3])
    \/ \E h \in Handles : Enter(h)
    \/ \E h \in Handles : Exit(h)
    \/ \E in \in EventInputs : Record(in[1], in[2], in[3])

Spec == Init /\ [][Next]_vars

\* A program that installs a subscriber at its start, makes its spans at
\* different times, and enters and exits them in any order, again and
\* again.
NextReuse ==
    \/ globalSubscriber = NoSubscriber /\ SetGlobalSubscriber(2)
    \/ \E now \in Times :
          globalSubscriber # NoSubscriber
            /\ ConstructAt(site[1], site[2], site[3], now)
    \/ \E h \in Handles : Enter(h)
    \/ \E h \in Handles : Exit(h)

\* Its spans are made by span("outer").
InitReuse == Init /\ site[1] = "outer"

SpecReuse == InitReuse /\ [][NextReuse]_vars

\* A program that installs a subscriber at its start, enters and exits
\* the spans of its tasks in any order and logs; it makes one span more
\* than it has tasks, which it only constructs, as the last thing but
\* logging.
NextOrder ==
    \/ globalSubscriber = NoSubscriber /\ SetGlobalSubscriber(2)
    \/ globalSubscriber # NoSubscriber
          /\ ConstructWithin(MaxSpans + 1, site[1], site[2], site[3])
    \/ \E h \in Handles : Len(spans) <= MaxSpans /\ Enter(h)
    \/ \E h \in Handles : Len(spans) <= MaxSpans /\ Exit(h)
    \/ globalSubscriber # NoSubscriber /\ Record(INFO, "c", "db")

\* Its spans are made by span("outer").
InitOrder == Init /\ site[1] = "outer"

SpecOrder == InitOrder /\ [][NextOrder]_vars

\* A program that enters and exits its spans through run() only, with work
\* that returns or throws.
NextRun ==
    \/ \E s \in Subscribers : SetGlobalSubscriber(s)
    \/ Construct(site[1], site[2], site[3])
    \/ \E in \in EventInputs : Record(in[1], in[2], in[3])
    \/ \E h \in Handles : RunCall(h)
    \/ RunReturn
    \/ \E e \in Errors : Throw(e)
    \/ RunThrow
    \/ Catch

\* Its spans are made by span("inner", {}, {level: DEBUG, target: "db"}).
InitRun == Init /\ site[1] = "inner"

SpecRun == InitRun /\ [][NextRun]_vars

\* A program with asynchronous tasks: it installs a subscriber at its
\* start; its tasks run work in spans with runAsync(), and construct spans
\* and record events while others are suspended.
NextAsync ==
    \/ globalSubscriber = NoSubscriber /\ SetGlobalSubscriber(2)
    \/ globalSubscriber # NoSubscriber /\ Construct(site[1], site[2], site[3])
    \/ globalSubscriber # NoSubscriber /\ Record(INFO, "c", "db")
    \/ \E h \in Handles : globalSubscriber # NoSubscriber /\ RunAsyncCall(h)
    \/ \E t \in BagToSet(tasks), outcome \in {NoError, "X"} : Resume(t, outcome)

\* Its spans are made by span("outer").
InitAsync == Init /\ site[1] = "outer"

SpecAsync == InitAsync /\ [][NextAsync]_vars

\* A test program: it installs a collector at its start, then creates
\* spans and runs work in them, and calls a function wrapped by
\* instrument("f", fn).
NextCollect ==
    \/ \E s \in {Collector(TRACE), Collector(INFO)} :
          globalSubscriber = NoSubscriber /\ SetGlobalSubscriber(s)
    \/ \E in \in SpanInputs :
          globalSubscriber # NoSubscriber /\ Construct(in[1], in[2], in[3])
    \/ \E h \in Handles :
          globalSubscriber # NoSubscriber /\ ~ Wrapped(h) /\ RunCall(h)
    \/ \E args \in ArgInputs :
          globalSubscriber # NoSubscriber /\ Instrumented("f", EmptyFields, args)
    \/ RunReturn

SpecCollect == Init /\ [][NextCollect]_vars

\* A program that installs one collector at its start and later swaps it
\* for another, at any time between its events and around the work it runs
\* in spans; it may clear() the first collector after the swap.
NextSwap ==
    \/ globalSubscriber = NoSubscriber /\ SetGlobalSubscriber(Collector(TRACE))
    \/ globalSubscriber = Collector(TRACE) /\ SetGlobalSubscriber(Collector(DEBUG))
    \/ globalSubscriber # NoSubscriber /\ Construct(site[1], site[2], site[3])
    \/ \E h \in Handles : globalSubscriber # NoSubscriber /\ RunCall(h)
    \/ RunReturn
    \/ globalSubscriber # NoSubscriber /\ Record(INFO, "c", "db")
    \/ /\ globalSubscriber = Collector(DEBUG)
       /\ collectors[Collector(TRACE)] # NoneCollected
       /\ Clear(Collector(TRACE))

\* Its spans are made by span("outer").
InitSwap == Init /\ site[1] = "outer"

SpecSwap == InitSwap /\ [][NextSwap]_vars

\* A program that installs at its start a subscriber whose onSpanEnter
\* throws, or one whose onSpanExit throws, and runs synchronous and
\* asynchronous work in its spans: the
\* work itself does not fail, it calls runAsync() from no run(), and it
\* awaits the promise of a runAsync() before it calls run() or runAsync()
\* again.  The exception run() throws is caught by the outermost caller.
NextFaulty ==
    \/ \E s \in {FaultyOnEnter, FaultyOnExit} :
          globalSubscriber = NoSubscriber /\ SetGlobalSubscriber(s)
    \/ globalSubscriber # NoSubscriber /\ Construct(site[1], site[2], site[3])
    \/ \E h \in Handles :
          globalSubscriber # NoSubscriber /\ tasks = EmptyBag /\ RunCall(h)
    \/ RunReturn
    \/ RunThrow
    \/ runStack = << >> /\ Catch
    \/ \E h \in Handles :
          /\ globalSubscriber # NoSubscriber
          /\ runStack = << >>
          /\ tasks = EmptyBag
          /\ RunAsyncCall(h)
    \/ \E t \in BagToSet(tasks) : Resume(t, NoError)

\* Its spans are made by span("outer").
InitFaulty == Init /\ site[1] = "outer"

SpecFaulty == InitFaulty /\ [][NextFaulty]_vars

\* A program that installs a collector of some minimum level at its start
\* and then logs.
NextEmit ==
    \/ \E L \in Levels : globalSubscriber = NoSubscriber
                            /\ SetGlobalSubscriber(Collector(L))
    \/ \E in \in EmitInputs : Emit(in[1], in[2], in[3])

SpecEmit == Init /\ [][NextEmit]_vars

\* ================================================================ claims
Top(seq) == seq[Len(seq)]

\* The step was made by operation op on handle h.
Did(op, h) == lastOp'.op = op /\ lastOp'.h = h

\* C1: immediately after an effective exit() of a handle, nested or not,
\* currentSpan is the value it had immediately before that handle's most
\* recent effective enter().
C1_ExitRestoresEnterTimeState ==
    (lastOp.op = "exit" /\ lastOp.eff) => currentSpan = enteredFrom[lastOp.h]

\* C1 witness: a handle was exited out of order, while a handle entered on
\* top of it is still Entered.
C1_Witness ==
    /\ lastOp.op = "exit"
    /\ lastOp.eff
    /\ \E g \in Handles : spans[g].entered /\ spans[g].previousSpan = lastOp.h

\* C2: while enter/exit calls on distinct handles are strictly nested,
\* currentSpan is the context of the innermost handle still Entered, which
\* is Entered, and once the outermost handle is exited it is the value it
\* had before the first enter.
C2_NestedEnterExitIsAStack ==
    nestOk =>
        IF nestStack = << >>
        THEN currentSpan = nestBase /\ NoneEntered
        ELSE /\ currentSpan = Top(nestStack)
             /\ \A i \in DOMAIN nestStack : spans[nestStack[i]].entered

\* C2 witness: the inner of two nested handles has just been exited and the
\* enclosing one is still Entered.
C2_Witness ==
    /\ lastOp.op = "exit"
    /\ lastOp.eff
    /\ nestOk
    /\ Len(nestStack) = 1
    /\ lastOp.h # Top(nestStack)

\* C3: when the work of run() throws X, the handle is not Entered when the
\* error reaches run()'s caller, and the error that reaches the caller is
\* X itself; with a subscriber installed and the span still Entered and
\* not yet notified as exited when the work throws, exactly one onSpanExit
\* call is made for that span between the call of run() and the error
\* reaching its caller: the one of run()'s finally block, to the installed
\* subscriber.
C3_RunExitsOnceAndRethrows ==
    lastOp.op = "run_throw" =>
        /\ thrown # NoError
        /\ thrown = workErr
        /\ ~ spans[lastOp.h].entered
        /\ (lastOp.quiet /\ lastOp.eff /\ globalSubscriber # NoSubscriber) =>
              /\ ExitCalls(lastCalls, lastOp.h) = 1
              /\ Len(lastCalls) = 1
              /\ lastCalls[1].sub = globalSubscriber

\* C3 witness: X has left a run() whose work left the span Entered, with a
\* subscriber installed, and is on its way through an enclosing run().
C3_Witness ==
    /\ lastOp.op = "run_throw"
    /\ lastOp.quiet
    /\ lastOp.eff
    /\ globalSubscriber # NoSubscriber
    /\ Len(lastCalls) = 1
    /\ thrown = "X"
    /\ runStack # << >>

\* C4: enter() on an Entered handle and exit() on a handle that is not
\* Entered call no subscriber method and change neither currentSpan nor any
\* handle's entered flag or previousSpan; an enter() right after an enter()
\* of the same handle, and an exit() right after an exit() of it, is such a
\* no-op, and the first of the two made at most one call, exactly one when
\* it was effective and a subscriber is installed.
C4_ReenterAndReexitAreNoOps ==
    [][\A h \in Handles :
          /\ ((Did("enter", h) /\ spans[h].entered)
                \/ (Did("exit", h) /\ ~ spans[h].entered)) =>
                /\ lastCalls' = << >>
                /\ currentSpan' = currentSpan
                /\ spans' = spans
          /\ \A op \in {"enter", "exit"} :
                (lastOp.op = op /\ lastOp.h = h /\ Did(op, h)) =>
                   /\ lastCalls' = << >>
                   /\ Len(lastCalls) =
                         IF lastOp.eff /\ globalSubscriber # NoSubscriber
                         THEN 1 ELSE 0
      ]_vars

\* C4 witness: enter() was called on an Entered handle with a subscriber
\* installed.
C4_Witness ==
    /\ lastOp.op = "enter"
    /\ ~ lastOp.eff
    /\ globalSubscriber # NoSubscriber
    /\ spans[lastOp.h].entered

\* C5: the k-th Span constructed has id k, whatever was entered, exited or
\* recorded in between, and the counter is the number of spans constructed.
C5_IdsCountConstructions ==
    /\ spanIdCounter = Len(spans)
    /\ \A k \in Handles : spans[k].context.id = k

\* C5 witness: a second span was constructed while the first was Entered.
C5_Witness ==
    /\ lastOp.op = "construct"
    /\ lastOp.h = 2
    /\ spans[1].entered

\* C6: a record call with a subscriber installed asks enabled() first, with
\* the metadata made of the call's level and target, and then calls onEvent
\* exactly once if the answer is true and not at all if it is false.
C6_EnabledGatesOnEvent ==
    (lastOp.op = "record" /\ globalSubscriber # NoSubscriber) =>
        LET md == [level |-> lastOp.level, target |-> lastOp.target] IN
        /\ Len(lastCalls) = IF enabled(globalSubscriber, md) THEN 2 ELSE 1
        /\ lastCalls[1].m = "enabled"
        /\ lastCalls[1].sub = globalSubscriber
        /\ lastCalls[1].level = lastOp.level
        /\ lastCalls[1].target = lastOp.target
        /\ \A i \in 2 .. Len(lastCalls) :
              /\ lastCalls[i].m = "onEvent"
              /\ lastCalls[i].sub = globalSubscriber
              /\ lastCalls[i].level = lastOp.level
              /\ lastCalls[i].target = lastOp.target

\* C6 witness: an event was recorded that the installed subscriber's filter
\* turned down.
C6_Witness ==
    /\ lastOp.op = "record"
    /\ globalSubscriber # NoSubscriber
    /\ ~ enabled(globalSubscriber, [level |-> lastOp.level, target |-> lastOp.target])

\* C7: an effective enter() sets the entered flag, saves currentSpan into
\* previousSpan and makes the span current, and an effective exit() clears
\* the flag and restores previousSpan, with and without a subscriber; with
\* none installed, enter(), exit() and record call no subscriber method, and
\* record changes nothing.
C7_NoSubscriberIsSilent ==
    [][/\ \A h \in Handles :
             /\ (Did("enter", h) /\ ~ spans[h].entered) =>
                   /\ spans' = [spans EXCEPT ![h].entered = TRUE,
                                             ![h].previousSpan = currentSpan]
                   /\ currentSpan' = h
             /\ (Did("exit", h) /\ spans[h].entered) =>
                   /\ spans' = [spans EXCEPT ![h].entered = FALSE]
                   /\ currentSpan' = spans[h].previousSpan
       /\ (globalSubscriber = NoSubscriber
              /\ lastOp'.op \in {"enter", "exit", "record"}) =>
             lastCalls' = << >>
       /\ (globalSubscriber = NoSubscriber /\ lastOp'.op = "record") =>
             UNCHANGED << globalSubscriber, spanIdCounter, currentSpan, spans >>
      ]_vars

\* C7 witness: with no subscriber installed, an exit() has restored an
\* enclosing span.
C7_Witness ==
    /\ globalSubscriber = NoSubscriber
    /\ lastOp.op = "exit"
    /\ lastOp.eff
    /\ currentSpan # NoSpan
    /\ lastCalls = << >>

\* C8: when onSpanExit is called, currentSpan still has the value it had
\* before exit() and the handle is still Entered; when onSpanEnter is
\* called, currentSpan is already the entering span's context.
C8_NotifyOrder ==
    [][\A i \in DOMAIN lastCalls' :
          /\ lastCalls'[i].m = "onSpanExit" =>
                /\ lastCalls'[i].cur = currentSpan
                /\ lastCalls'[i].ent
                /\ spans[lastCalls'[i].span].entered
          /\ lastCalls'[i].m = "onSpanEnter" =>
                /\ lastCalls'[i].cur = lastCalls'[i].span
                /\ lastCalls'[i].ent
      ]_vars

\* C8 witness: onSpanExit was delivered while currentSpan had a value that
\* exit() then replaced.
C8_Witness ==
    /\ lastOp.op = "exit"
    /\ Len(lastCalls) = 1
    /\ lastCalls[1].m = "onSpanExit"
    /\ lastCalls[1].cur # currentSpan

\* C9: a context's parent is currentSpan at its construction, and no later
\* operation changes it.
C9_ParentIsConstructionTime ==
    [][/\ \A h \in Handles : spans'[h].context.parent = spans[h].context.parent
       /\ lastOp'.op = "construct" =>
             spans'[Len(spans')].context.parent = currentSpan
      ]_vars

\* C9 witness: a span is Entered that was entered when currentSpan was not
\* what it was at the span's construction.
C9_Witness ==
    \E h \in Handles :
        /\ spans[h].entered
        /\ spans[h].previousSpan # spans[h].context.parent

C11_EventCarriesCurrentSpan ==
    [][lastOp'.op = "record" =>
          \A i \in DOMAIN lastCalls' :
             lastCalls'[i].m = "onEvent" =>
                /\ lastCalls'[i].span = currentSpan
                /\ (lastOp.op = "enter" /\ lastOp.eff) =>
                      lastCalls'[i].span = lastOp.h
                /\ (lastOp.op = "exit" /\ lastOp.eff) =>
                      lastCalls'[i].span = enteredFrom[lastOp.h]
      ]_vars

\* C11 witness: an event was delivered that carries the span an exit() of
\* an inner span restored.
C11_Witness ==
    /\ lastOp.op = "record"
    /\ \E i \in DOMAIN lastCalls :
          /\ lastCalls[i].m = "onEvent"
          /\ lastCalls[i].span # NoSpan
          /\ \E g \in Handles : ~ spans[g].entered
                                  /\ spans[g].previousSpan = lastCalls[i].span

\* An entry of a collector's `spans` array.
Noted(action, h) == [span |-> h, action |-> action]

\* C12: span("outer").run(() => { span("inner").run(() => {}); }) with a
\* collector installed leaves in the collector's `spans` array exactly
\* enter(outer), enter(inner), exit(inner), exit(outer); the parent of the
\* inner context is the outer context and its id is the outer one's plus 1.
C12_OuterInnerScenario ==
    \A o \in 1 .. MaxSpans :
        (story.on /\ story.ops = OuterInner(o)) =>
            /\ collectors[globalSubscriber].spans =
                  << Noted("enter", o), Noted("enter", o + 1),
                     Noted("exit", o + 1), Noted("exit", o) >>
            /\ spans[o + 1].context.parent = o
            /\ spans[o + 1].context.id = spans[o].context.id + 1

\* C12 witness: the scenario has run to its end, with spans named "outer"
\* and "inner".
C12_Witness ==
    /\ story.on
    /\ \E o \in 1 .. MaxSpans : story.ops = OuterInner(o)
    /\ lastOp.op = "run_return"
    /\ runStack = << >>
    /\ Len(collectors[globalSubscriber].spans) = 4

\* C13: f = instrument("f", fn) called twice with 41, with a collector
\* installed and no other span constructed in between, runs fn in two
\* different spans, the second constructed by the second call; each is
\* entered once and exited once, their ids are consecutive, and the fields
\* of each hold args = [41].
C13_InstrumentMakesASpanPerCall ==
    \A a, b \in 1 .. MaxSpans :
        (story.on /\ story.ops = TwiceInstrumented(a, b)) =>
            /\ b = a + 1
            /\ spans[b].context.id = spans[a].context.id + 1
            /\ collectors[globalSubscriber].spans =
                  << Noted("enter", a), Noted("exit", a),
                     Noted("enter", b), Noted("exit", b) >>
            /\ \A h \in {a, b} :
                  /\ "args" \in DOMAIN spans[h].context.fields
                  /\ spans[h].context.fields.args = << 41 >>
                  /\ ~ spans[h].entered

\* C13 as stated: the ids of the two spans are two apart.
C13_IdsTwoApart ==
    \A a, b \in 1 .. MaxSpans :
        (story.on /\ story.ops = TwiceInstrumented(a, b)) =>
            spans[b].context.id = spans[a].context.id + 2

\* C13 witness: the wrapper has returned from its second call.
C13_Witness ==
    /\ story.on
    /\ \E a, b \in 1 .. MaxSpans : story.ops = TwiceInstrumented(a, b)
    /\ lastOp.op = "run_return"
    /\ Len(spans) >= 2

\* The object o has the key "target" or the key "fields".
IsLogOptions(o) == "target" \in DOMAIN o \/ "fields" \in DOMAIN o

\* C14: for every options value passed to a level emitter, the event that
\* is delivered has, if the value has the key "target" or the key "fields",
\* the value's target as target and the value's fields as fields, empty
\* when the value has no "fields" key, whatever other keys it has; and
\* otherwise the whole value as fields and no target.  With no options at
\* all it has empty fields and no target.  info("c", {target: "x"}) yields
\* target "x" and empty fields.
C14_OptionsDisambiguation ==
    [][\A in \in EmitInputs :
          Emit(in[1], in[2], in[3]) =>
             \A i \in DOMAIN lastCalls' :
                lastCalls'[i].m = "onEvent" =>
                   LET event == EventOf(lastCalls'[i])
                       options == in[3]
                   IN  /\ event.metadata.level = in[1]
                       /\ event.message = in[2]
                       /\ options = Undefined =>
                             /\ event.metadata.target = NoTarget
                             /\ event.fields = EmptyFields
                       /\ (options # Undefined /\ IsLogOptions(options[1])) =>
                             /\ event.metadata.target =
                                   IF "target" \in DOMAIN options[1]
                                   THEN options[1].target ELSE NoTarget
                             /\ event.fields =
                                   IF "fields" \in DOMAIN options[1]
                                   THEN options[1].fields ELSE EmptyFields
                       /\ (options # Undefined /\ ~ IsLogOptions(options[1])) =>
                             /\ event.metadata.target = NoTarget
                             /\ event.fields = options[1]
                       /\ options = Given([target |-> "x"]) =>
                             /\ event.metadata.target = "x"
                             /\ event.fields = EmptyFields
      ]_vars

\* C14 witness: an event with a target and no fields was delivered and is
\* in the collector's array, as after info("c", {target: "x"}).
C14_Witness ==
    /\ lastOp.op = "emit"
    /\ globalSubscriber \in Collectors
    /\ collectors[globalSubscriber].events # << >>
    /\ LET event == Top(collectors[globalSubscriber].events)
       IN  /\ event.message = "c"
           /\ event.metadata.target = "x"
           /\ event.fields = EmptyFields
    /\ Len(lastCalls) = 2

\* C15: with a collector of minimum level L installed, an emitter of level
\* l makes an onEvent call if and only if l >= L, the call is made once
\* with the emitter's level, and the event is appended to the collector's
\* events, which keep the order of the calls; trace("a"), debug("b"),
\* info("c") with minimum level INFO leave exactly one event, "c".
C15_LevelFilter ==
    [][(lastOp'.op = "emit" /\ globalSubscriber \in Collectors) =>
          LET s == globalSubscriber
              delivered == SelectSeq(lastCalls', LAMBDA c : c.m = "onEvent")
          IN  /\ Len(delivered) = IF lastOp'.level >= MinLevelOf(s) THEN 1 ELSE 0
              /\ \A i \in DOMAIN delivered : delivered[i].level = lastOp'.level
              /\ collectors'[s].events =
                    collectors[s].events \o
                       [i \in DOMAIN delivered |-> EventOf(delivered[i])]
              /\ (story'.on /\ story'.ops = ThreeLevels /\ MinLevelOf(s) = INFO) =>
                    /\ Len(collectors'[s].events) = 1
                    /\ collectors'[s].events[1].message = "c"
                    /\ Len(delivered) = 1
                    /\ Len(SelectSeq(lastCalls, LAMBDA c : c.m = "onEvent")) = 0
      ]_vars

\* C15 witness: trace("a"), debug("b"), info("c") have been called with a
\* collector of minimum level INFO installed.
C15_Witness ==
    /\ story.on
    /\ story.ops = ThreeLevels
    /\ globalSubscriber = Collector(INFO)
    /\ Len(collectors[globalSubscriber].events) = 1

\* The calls of the subscriber method m for handle h among `calls`.
CallsOf(calls, m, h) == Len(SelectSeq(calls, LAMBDA c : c.m = m /\ c.span = h))

\* C16: runAsync() enters its span once before the work starts; while the
\* work is suspended and no other operation exits the span, the span stays
\* Entered and no onSpanExit and no onSpanEnter is delivered for it; when
\* the work has settled, exactly one onSpanExit is delivered, the span is
\* exited, and after that the promise of runAsync() settles as the work
\* did: resolved, or rejected with the work's error.  A work that never
\* settles leaves the span Entered.
C16_RunAsyncExitsWhenWorkSettles ==
    [][/\ \A h \in Handles :
             (Did("run_async_call", h) /\ lastOp'.eff) =>
                /\ Task(h) \in BagToSet(tasks')
                /\ spans'[h].entered
                /\ globalSubscriber # NoSubscriber =>
                      /\ Len(lastCalls') = 1
                      /\ lastCalls'[1].m = "onSpanEnter"
                      /\ lastCalls'[1].span = h
       /\ \A t \in BagToSet(tasks') :
             t.intact =>
                /\ spans'[t.h].entered
                /\ t \in BagToSet(tasks) =>
                      /\ CallsOf(lastCalls', "onSpanExit", t.h) = 0
                      /\ CallsOf(lastCalls', "onSpanEnter", t.h) = 0
       /\ (lastOp'.op = "run_async_end" /\ lastOp'.quiet) =>
             /\ lastOp'.eff
             /\ ~ spans'[lastOp'.h].entered
             /\ lastCalls'[Len(lastCalls')].m =
                   IF lastOp'.outcome = NoError THEN "resolve" ELSE "reject"
             /\ lastCalls'[Len(lastCalls')].message = lastOp'.outcome
             /\ globalSubscriber # NoSubscriber =>
                   /\ Len(lastCalls') = 2
                   /\ lastCalls'[1].m = "onSpanExit"
                   /\ lastCalls'[1].span = lastOp'.h
                   /\ lastCalls'[1].ent
      ]_vars

\* C16 witness: a runAsync() whose work was rejected with X has exited its
\* span and rejected its promise with X, while another is still suspended.
C16_Witness ==
    /\ lastOp.op = "run_async_end"
    /\ lastOp.quiet
    /\ Len(lastCalls) = 2
    /\ lastCalls[1].m = "onSpanExit"
    /\ lastCalls[2].m = "reject"
    /\ lastCalls[2].message = "X"
    /\ \E t \in BagToSet(tasks) : t.intact /\ spans[t.h].entered

\* The entries a collector's `spans` array gets from `calls`, in order.
RECURSIVE SpanEntries(_)
SpanEntries(calls) ==
    IF calls = << >> THEN << >>
    ELSE LET c == Head(calls)
             rest == SpanEntries(Tail(calls))
         IN  IF c.m = "onSpanEnter" THEN << [span |-> c.span, action |-> "enter"] >> \o rest
             ELSE IF c.m = "onSpanExit"
                  THEN << [span |-> c.span, action |-> "exit"] >> \o rest
                  ELSE rest

\* C17: every onSpanEnter, onSpanExit and onEvent is delivered to the
\* subscriber installed when the operation makes it, and to no other: a
\* subscriber that is not installed receives nothing, setGlobalSubscriber()
\* itself delivers nothing to the old or the new subscriber, and the
\* installed collector receives exactly what the operation notified.
C17_OnlyInstalledSubscriberNotified ==
    [][lastOp'.op # "clear" =>
         /\ \A i \in DOMAIN lastCalls' : lastCalls'[i].sub = globalSubscriber
         /\ \A s \in Collectors :
               s # globalSubscriber => collectors'[s] = collectors[s]
         /\ lastOp'.op = "setGlobalSubscriber" =>
               /\ lastCalls' = << >>
               /\ collectors' = collectors
         /\ globalSubscriber \in Collectors =>
               /\ collectors'[globalSubscriber].spans =
                     collectors[globalSubscriber].spans \o SpanEntries(lastCalls')
               /\ Len(collectors'[globalSubscriber].events) =
                     Len(collectors[globalSubscriber].events)
                       + Len(SelectSeq(lastCalls', LAMBDA c : c.m = "onEvent"))
         /\ (lastOp'.op \in {"run_call", "run_return"} /\ lastOp'.eff
               /\ globalSubscriber # NoSubscriber) => Len(lastCalls') = 1
      ]_vars

\* C17 witness: a span entered under one collector and exited under the
\* other is in the first one's array as entered only, and in the second
\* one's as exited only.
C17_Witness ==
    /\ lastOp.op = "run_return"
    /\ globalSubscriber = Collector(DEBUG)
    /\ collectors[Collector(TRACE)].spans = << [span |-> 1, action |-> "enter"] >>
    /\ collectors[Collector(DEBUG)].spans = << [span |-> 1, action |-> "exit"] >>

\* The run() calls in progress are nested runs of distinct spans: each
\* entered its own span, and no span was exited but by a finally block.
ProperlyNested ==
    /\ nestOk
    /\ Len(nestStack) = Len(runStack)
    /\ \A i \in DOMAIN runStack : nestStack[i] = runStack[i].h /\ runStack[i].quiet

\* C18: when an error propagates through nested run() calls, each of which
\* entered its own span, every run() it leaves is the innermost one, its
\* span gets exactly one onSpanExit and is exited, and the error goes on
\* unchanged; when it has left the outermost run(), currentSpan is the
\* value it had before the outermost run() was called and no handle is
\* Entered.
C18_ErrorUnwindsNestedRuns ==
    [][(lastOp'.op = "run_throw" /\ ProperlyNested) =>
         /\ lastOp'.h = nestStack[Len(nestStack)]
         /\ lastOp'.h = runStack[Len(runStack)].h
         /\ ~ spans'[lastOp'.h].entered
         /\ \A h \in Handles : h # lastOp'.h => spans'[h].entered = spans[h].entered
         /\ globalSubscriber # NoSubscriber =>
               /\ Len(lastCalls') = 1
               /\ lastCalls'[1].m = "onSpanExit"
               /\ lastCalls'[1].span = lastOp'.h
         /\ thrown' = thrown
         /\ thrown' # NoError
         /\ ProperlyNested'
         /\ runStack' = << >> =>
               /\ currentSpan' = nestBase
               /\ \A h \in Handles : ~ spans'[h].entered
      ]_vars

\* C18 witness: an error has left two nested run() calls, the outermost
\* last, with a subscriber installed.
C18_Witness ==
    /\ lastOp.op = "run_throw"
    /\ lastOp.left = 2
    /\ lastOp.quiet
    /\ lastOp.eff
    /\ runStack = << >>
    /\ nestOk
    /\ thrown = "X"
    /\ globalSubscriber # NoSubscriber
    /\ Len(lastCalls) = 1
    /\ NoneEntered

\* A runAsync() call is suspended on the span that is current, and no other
\* operation has exited that span.
SuspendedOnCurrent ==
    \E t \in BagToSet(tasks) : t.intact /\ t.h = currentSpan

\* C19: the suspension of runAsync() leaves currentSpan at its span SA, and
\* what other code does meanwhile without entering a span of its own sees
\* it: an event it records is delivered with span = SA, a span it
\* constructs gets SA as its parent, and both leave currentSpan and the
\* suspended calls as they are.
C19_SuspendedSpanIsSeenByOtherTasks ==
    [][/\ \A h \in Handles :
             (Did("run_async_call", h) /\ lastOp'.eff) =>
                /\ currentSpan' = h
                /\ Task(h) \in BagToSet(tasks')
       /\ (lastOp'.op = "record" /\ SuspendedOnCurrent) =>
             /\ CallsOf(lastCalls', "onEvent", currentSpan) = 1
             /\ \A i \in DOMAIN lastCalls' :
                   lastCalls'[i].m = "onEvent" => lastCalls'[i].span = currentSpan
             /\ currentSpan' = currentSpan
             /\ tasks' = tasks
       /\ (lastOp'.op = "construct" /\ SuspendedOnCurrent) =>
             /\ spans'[lastOp'.h].context.parent = currentSpan
             /\ currentSpan' = currentSpan
             /\ tasks' = tasks
      ]_vars

\* C19 witness: while a runAsync() is suspended on span 1, other code has
\* constructed a span, whose parent is span 1, and then recorded an event,
\* which was delivered with span 1.
C19_Witness ==
    /\ lastOp.op = "record"
    /\ currentSpan = 1
    /\ Task(1) \in BagToSet(tasks)
    /\ CallsOf(lastCalls, "onEvent", 1) = 1
    /\ \E h \in Handles : spans[h].context.parent = 1 /\ ~ spans[h].entered

\* C20: when the subscriber's onSpanEnter throws in the enter() of run() or
\* runAsync(), the work is not called (no run() frame, no suspended call),
\* onSpanEnter is the only subscriber method called, so no onSpanExit is
\* delivered for the span, and the subscriber's exception reaches the
\* caller: thrown by run(), and as the rejection of the promise of
\* runAsync(), which throws nothing.
C20_ThrowingOnSpanEnterSkipsWork ==
    [][\A h \in Handles :
          /\ (Did("run_call", h) /\ lastOp'.eff
                /\ Throws(globalSubscriber, "onSpanEnter")) =>
                /\ runStack' = runStack
                /\ thrown' = SubscriberError
                /\ Len(lastCalls') = 1
                /\ lastCalls'[1].m = "onSpanEnter"
                /\ lastCalls'[1].span = h
                /\ CallsOf(lastCalls', "onSpanExit", h) = 0
          /\ (Did("run_async_call", h) /\ lastOp'.eff
                /\ Throws(globalSubscriber, "onSpanEnter")) =>
                /\ tasks' = tasks
                /\ thrown' = NoError
                /\ Len(lastCalls') = 2
                /\ lastCalls'[1].m = "onSpanEnter"
                /\ lastCalls'[1].span = h
                /\ lastCalls'[2].m = "reject"
                /\ lastCalls'[2].message = SubscriberError
                /\ CallsOf(lastCalls', "onSpanExit", h) = 0
      ]_vars

\* C20 witness: run() has thrown the exception of onSpanEnter to its caller
\* without a frame for its work, after a runAsync() on another span was
\* rejected with it.
C20_Witness ==
    /\ lastOp.op = "run_call"
    /\ lastOp.eff
    /\ globalSubscriber = FaultyOnEnter
    /\ thrown = SubscriberError
    /\ runStack = << >>
    /\ tasks = EmptyBag
    /\ \E h \in Handles : h # lastOp.h /\ spans[h].entered

\* C21: a handle can be entered and exited again and again.  Every enter()
\* of a handle that is not Entered, after an exit() as well as the first
\* one, is effective: it delivers one onSpanEnter, saves the currentSpan of
\* that moment in previousSpan and makes the handle current; the exit()
\* that follows restores the value this enter() saved.  Neither changes
\* the context of any span: id, parent and startTime stay what the
\* constructor made them.
C21_HandleIsReusable ==
    [][\A h \in Handles :
          /\ (Did("enter", h) /\ ~ spans[h].entered) =>
                /\ lastOp'.eff
                /\ spans'[h].entered
                /\ spans'[h].previousSpan = currentSpan
                /\ currentSpan' = h
                /\ globalSubscriber # NoSubscriber =>
                      /\ Len(lastCalls') = 1
                      /\ lastCalls'[1].m = "onSpanEnter"
                      /\ lastCalls'[1].span = h
          /\ (Did("exit", h) /\ spans[h].entered) =>
                /\ ~ spans'[h].entered
                /\ currentSpan' = enteredFrom[h]
                /\ currentSpan' = spans[h].previousSpan
          /\ lastOp'.op \in {"enter", "exit"} =>
                /\ spans'[h].context = spans[h].context
                /\ spans'[h].context.id = h
                /\ spans'[h].context.startTime \in Times
      ]_vars

\* C21 witness: span 2 was constructed, later than span 1, while span 1
\* was current; span 1 was then exited, entered again while span 2 was
\* current, and its exit has restored span 2.
C21_Witness ==
    /\ lastOp.op = "exit"
    /\ lastOp.h = 1
    /\ lastOp.eff
    /\ Len(spans) = 2
    /\ spans[2].context.parent = 1
    /\ spans[1].context.parent = NoSpan
    /\ spans[1].context.startTime # spans[2].context.startTime
    /\ spans[1].previousSpan = 2
    /\ currentSpan = 2
    /\ spans[2].entered

\* Handle b is the only Entered one, and it was entered while handle a,
\* which has been exited since, was current.
LeftBehind(a, b) ==
    /\ a # b
    /\ spans[b].entered
    /\ spans[b].previousSpan = a
    /\ \A g \in Handles : g # b => ~ spans[g].entered

\* No handle is Entered, and currentSpan is the exited handle a.
Stale(a) == a # NoSpan /\ currentSpan = a /\ NoneEntered

\* C22: after enter A, enter B from an absent currentSpan, the exit of A
\* before B makes currentSpan absent and leaves B, entered from A, as the
\* only Entered handle; the exit of B then sets currentSpan to A although
\* no handle is Entered.  From then on, until a handle is entered, every
\* event is delivered with span = A and every span constructed gets A as
\* its parent.
C22_OutOfOrderExitLeavesStaleSpan ==
    [][\A a, b \in Handles :
          /\ (Did("exit", a) /\ nestOk /\ nestBase = NoSpan
                /\ nestStack = << a, b >>) =>
                /\ currentSpan' = NoSpan
                /\ LeftBehind(a, b)'
          /\ (Did("exit", b) /\ LeftBehind(a, b)) =>
                /\ Stale(a)'
          /\ (lastOp'.op = "record" /\ Stale(a)) =>
                /\ CallsOf(lastCalls', "onEvent", a) = 1
                /\ \A i \in DOMAIN lastCalls' :
                      lastCalls'[i].m = "onEvent" => lastCalls'[i].span = a
                /\ Stale(a)'
          /\ (lastOp'.op = "construct" /\ Stale(a)) =>
                /\ spans'[lastOp'.h].context.parent = a
                /\ Stale(a)'
      ]_vars

\* C22 witness: spans 1 and 2 were entered in this order from an absent
\* currentSpan and exited in the same order; a third span constructed
\* since has span 1 as its parent, and an event recorded after that was
\* delivered with span 1.
C22_Witness ==
    /\ lastOp.op = "record"
    /\ Stale(1)
    /\ ~ nestOk
    /\ spans[1].previousSpan = NoSpan
    /\ spans[2].previousSpan = 1
    /\ spans[1].context.parent = NoSpan
    /\ spans[2].context.parent = NoSpan
    /\ Len(spans) = 3
    /\ spans[3].context.parent = 1
    /\ CallsOf(lastCalls, "onEvent", 1) = 1

\* C23: a subscriber method that throws leaves the span half-way.  When
\* onSpanEnter throws in the enter() of run() or runAsync(), the handle is
\* Entered and current, with previousSpan saved, and nothing exits it: no
\* run() frame whose finally block would, no suspended runAsync().  When
\* onSpanExit throws in the exit() of the finally block of run() or
\* runAsync(), the handle stays Entered and currentSpan and previousSpan
\* stay as they were; the exception leaves run(), and is the rejection of
\* runAsync().
C23_ThrowingCallbackLeavesSpanHalfWay ==
    [][\A h \in Handles :
          /\ ((Did("run_call", h) \/ Did("run_async_call", h))
                /\ ~ spans[h].entered
                /\ Throws(globalSubscriber, "onSpanEnter")) =>
                /\ spans'[h].entered
                /\ currentSpan' = h
                /\ spans'[h].previousSpan = currentSpan
                /\ runStack' = runStack
                /\ tasks' = tasks
                /\ CallsOf(lastCalls', "onSpanExit", h) = 0
          /\ ((Did("run_return", h) \/ Did("run_throw", h) \/ Did("run_async_end", h))
                /\ spans[h].entered
                /\ Throws(globalSubscriber, "onSpanExit")) =>
                /\ spans'[h] = spans[h]
                /\ currentSpan' = currentSpan
                /\ ~ lastOp'.eff
                /\ CallsOf(lastCalls', "onSpanExit", h) = 1
                /\ IF lastOp'.op = "run_async_end"
                   THEN /\ thrown' = thrown
                        /\ lastCalls'[Len(lastCalls')].m = "reject"
                        /\ lastCalls'[Len(lastCalls')].message = SubscriberError
                   ELSE /\ thrown' = SubscriberError
                        /\ Len(runStack') = Len(runStack) - 1
      ]_vars

\* C23 witness: the work of run() has returned, onSpanExit has thrown in
\* the finally block, and the exception has left run(): the span is still
\* Entered and current, not the span that was current before it.
C23_Witness ==
    /\ lastOp.op = "run_return"
    /\ globalSubscriber = FaultyOnExit
    /\ thrown = SubscriberError
    /\ runStack = << >>
    /\ spans[lastOp.h].entered
    /\ currentSpan = lastOp.h
    /\ spans[lastOp.h].previousSpan # currentSpan
    /\ CallsOf(lastCalls, "onSpanExit", lastOp.h) = 1

====
